---- MODULE Spec2Model ----
(***************************************************************************)
(* The settings subsystem of flaskbb/admin/models.py: the two tables       *)
(* settingsgroup and settings, the helpers save/delete of both models and  *)
(* the classmethods Setting.get_all, Setting.update, Setting.as_dict and   *)
(* Setting.get_form.                                                       *)
(*                                                                         *)
(* Strings that the code converts with lower()/upper() are sequences of    *)
(* one-character strings, so that the conversions are computed character   *)
(* by character.  A PickleType cell holds the pickle of the value.  A      *)
(* Python dict is a function; the order in which a dict or a query result  *)
(* is iterated is not fixed by the code and is an input of the action.     *)
(***************************************************************************)
EXTENDS Integers, Sequences, FiniteSets, TLC

VARIABLES
    settingsgroup,      \* table settingsgroup: key -> row
    settings,           \* table settings: key -> row
    config,             \* app.config, the dict Setting.update writes to
    last,               \* the most recent call: [op, out]
    input,              \* the arguments of the call a one-call specification applies
    pc,                 \* per request: where its Setting.update call stands
    call,               \* per request: the dict passed to Setting.update
    todo,               \* per request: the keys iteritems() has yet to yield
    updated_settings,   \* per request: the local dict updated_settings
    overlap             \* a call was entered while another one was running

vars == <<settingsgroup, settings, config, last, input, pc, call, todo,
          updated_settings, overlap>>

---------------------------------------------------------------------------
(* Bounds and input sets *)

MaxVal == 1

Values == 0..MaxVal

Keys == {<<"o", "n">>, <<"O", "n">>, <<"u", "p">>}

GroupKeys == {"general", "misc"}

Requests == {"r1", "r2"}

None == "None"

---------------------------------------------------------------------------
(* Python values *)

LowerChar(c) ==
    CASE c = "O" -> "o" [] c = "N" -> "n" [] c = "U" -> "u" [] c = "P" -> "p"
      [] OTHER -> c

UpperChar(c) ==
    CASE c = "o" -> "O" [] c = "n" -> "N" [] c = "u" -> "U" [] c = "p" -> "P"
      [] OTHER -> c

RECURSIVE str_lower(_)
str_lower(s) ==
    IF s = <<>> THEN <<>> ELSE <<LowerChar(Head(s))>> \o str_lower(Tail(s))

RECURSIVE str_upper(_)
str_upper(s) ==
    IF s = <<>> THEN <<>> ELSE <<UpperChar(Head(s))>> \o str_upper(Tail(s))

Pickle(v) == <<"pickle", v>>

Unpickle(blob) == blob[2]

EmptyDict == [k \in {} |-> 0]

DictSet(d, k, v) == [x \in (DOMAIN d) \cup {k} |-> IF x = k THEN v ELSE d[x]]

DictUpdate(d, e) ==
    [x \in (DOMAIN d) \cup (DOMAIN e) |-> IF x \in DOMAIN e THEN e[x] ELSE d[x]]

DictDel(d, k) == [x \in (DOMAIN d) \ {k} |-> d[x]]

Return(v) == [kind |-> "return", value |-> v]

Raise(e) == [kind |-> "raise", error |-> e]

\* The orders in which the members of S can be enumerated.
Orders(S) ==
    {o \in [1..Cardinality(S) -> S] : \A i, j \in DOMAIN o : o[i] = o[j] => i = j}

---------------------------------------------------------------------------
(* Rows *)

NullExtra == [kind |-> "None"]

DictExtra(d) == [kind |-> "dict", items |-> d]

SettingsGroupRow(key, name, description) ==
    [key |-> key, name |-> name, description |-> description]

SettingRow(key, value, group, name, description, value_type, extra) ==
    [key |-> key, value |-> Pickle(value), settingsgroup |-> group,
     name |-> name, description |-> description,
     value_type |-> value_type, extra |-> extra]

SettingsGroupRows ==
    {SettingsGroupRow(g, "Group", "About group") : g \in GroupKeys}

SettingRows ==
    {SettingRow(k, v, g, "Title", "About title", "string", DictExtra(EmptyDict)) :
        k \in Keys, v \in Values, g \in GroupKeys}

\* SettingsGroup.settings: the settings whose foreign key is the group.
group_settings(tbl, g) == {k \in DOMAIN tbl : tbl[k].settingsgroup = g}

---------------------------------------------------------------------------
(* State after construction *)

Started == [op |-> "init", out |-> Return(None)]

NoInput == [op |-> "none"]

Init ==
    /\ settingsgroup = EmptyDict
    /\ settings = EmptyDict
    /\ config = EmptyDict
    /\ last = Started
    /\ input = NoInput
    /\ pc = [r \in Requests |-> "idle"]
    /\ call = [r \in Requests |-> EmptyDict]
    /\ todo = [r \in Requests |-> {}]
    /\ updated_settings = [r \in Requests |-> EmptyDict]
    /\ overlap = FALSE

RequestVars == <<input, pc, call, todo, updated_settings, overlap>>

---------------------------------------------------------------------------
(* SettingsGroup.save, SettingsGroup.delete, Setting.save, Setting.delete *)

SettingsGroup_save(row) ==
    /\ settingsgroup' = DictSet(settingsgroup, row.key, row)
    /\ last' = [op |-> "SettingsGroup.save", out |-> Return(None)]
    /\ UNCHANGED <<settings, config, RequestVars>>

\* The relationship without its cascade: the settings stay.
CascadeDelete_none(tbl, g) == tbl

\* cascade="all, delete-orphan": the rows of the group's settings go with it.
CascadeDelete(tbl, g) ==
    [k \in (DOMAIN tbl) \ group_settings(tbl, g) |-> tbl[k]]

SettingsGroup_delete(g) ==
    /\ g \in DOMAIN settingsgroup
    /\ settingsgroup' = DictDel(settingsgroup, g)
    /\ settings' = CascadeDelete(settings, g)
    /\ last' = [op |-> "SettingsGroup.delete", out |-> Return(None)]
    /\ UNCHANGED <<config, RequestVars>>

\* The foreign key fk_settingsgroup: the commit is refused when the row's
\* settingsgroup is the key of no group.
ForeignKeyHolds(groups, row) == row.settingsgroup \in DOMAIN groups

Setting_save(row) ==
    /\ IF ForeignKeyHolds(settingsgroup, row)
         THEN /\ settings' = DictSet(settings, row.key, row)
              /\ last' = [op |-> "Setting.save", out |-> Return(None)]
         ELSE /\ settings' = settings
              /\ last' = [op |-> "Setting.save", out |-> Raise("IntegrityError")]
    /\ UNCHANGED <<settingsgroup, config, RequestVars>>

Setting_delete(k) ==
    /\ k \in DOMAIN settings
    /\ settings' = DictDel(settings, k)
    /\ last' = [op |-> "Setting.delete", out |-> Return(None)]
    /\ UNCHANGED <<settingsgroup, config, RequestVars>>

---------------------------------------------------------------------------
(* Setting.get_all and Setting.as_dict *)

\* cls.query.all(): the rows in the order the query yields them.
query_all(tbl, order) == [i \in DOMAIN order |-> tbl[order[i]]]

Setting_get_all(order) ==
    /\ order \in Orders(DOMAIN settings)
    /\ last' = [op |-> "Setting.get_all", out |-> Return(query_all(settings, order))]
    /\ UNCHANGED <<settingsgroup, settings, config, RequestVars>>

\* The loop of as_dict over the query result, from position i on.
RECURSIVE as_dict_loop(_, _, _, _, _)
as_dict_loop(tbl, result, upper, i, d) ==
    IF i > Len(result) THEN d
    ELSE LET setting == tbl[result[i]]
             k == IF upper THEN str_upper(setting.key) ELSE setting.key
         IN  as_dict_loop(tbl, result, upper, i + 1,
                          DictSet(d, k, Unpickle(setting.value)))

\* The group looked up but its settings not used: every setting is iterated.
as_dict_result_unrestricted(tbl, from_group) == DOMAIN tbl

\* The settings as_dict iterates over; first_or_404() has found the group.
as_dict_result(tbl, from_group) ==
    IF from_group # None THEN group_settings(tbl, from_group) ELSE DOMAIN tbl

as_dict(groups, tbl, from_group, upper, result) ==
    IF from_group # None /\ from_group \notin DOMAIN groups
      THEN Raise("NotFound")
      ELSE Return(as_dict_loop(tbl, result, upper, 1, EmptyDict))

Setting_as_dict(from_group, upper, result) ==
    /\ result \in Orders(as_dict_result(settings, from_group))
    /\ last' = [op |-> "Setting.as_dict",
                out |-> as_dict(settingsgroup, settings, from_group, upper, result)]
    /\ UNCHANGED <<settingsgroup, settings, config, RequestVars>>

---------------------------------------------------------------------------
(* Setting.get_form *)

ValueTypes ==
    {"integer", "float", "string", "boolean", "select", "selectmultiple",
     "str", "date"}

\* The characters of a value_type.
TextOf(t) ==
    CASE t = "integer" -> <<"i", "n", "t", "e", "g", "e", "r">>
      [] t = "float" -> <<"f", "l", "o", "a", "t">>
      [] t = "string" -> <<"s", "t", "r", "i", "n", "g">>
      [] t = "boolean" -> <<"b", "o", "o", "l", "e", "a", "n">>
      [] t = "select" -> <<"s", "e", "l", "e", "c", "t">>
      [] t = "selectmultiple" ->
            <<"s", "e", "l", "e", "c", "t", "m", "u", "l", "t", "i", "p", "l", "e">>
      [] t = "str" -> <<"s", "t", "r">>
      [] t = "date" -> <<"d", "a", "t", "e">>

\* a in b, for two strings: a is a substring of b.
str_in(a, b) ==
    \E i \in 0..(Len(b) - Len(a)) : SubSeq(b, i + 1, i + Len(a)) = a

\* setting.value_type in ("string"): the parentheses make no tuple, so this
\* is the substring test against "string".
in_string(value_type) == str_in(TextOf(value_type), TextOf("string"))

\* name in setting.extra, for an extra that is a dict.
in_extra(name, extra) == name \in DOMAIN extra.items

NumberRange(arg, bound) == [validator |-> "NumberRange", arg |-> arg, bound |-> bound]

Length(arg, bound) == [validator |-> "Length", arg |-> arg, bound |-> bound]

\* The two kinds of validator exchanged.
bound_validators_exchanged(setting, arg) ==
    IF in_extra(arg, setting.extra)
      THEN IF setting.value_type \in {"integer", "float"}
             THEN <<Length(arg, setting.extra.items[arg])>>
           ELSE IF in_string(setting.value_type)
             THEN <<NumberRange(arg, setting.extra.items[arg])>>
           ELSE <<>>
      ELSE <<>>

\* Lines 67-91, for arg "min" and then for arg "max".
bound_validators(setting, arg) ==
    IF in_extra(arg, setting.extra)
      THEN IF setting.value_type \in {"integer", "float"}
             THEN <<NumberRange(arg, setting.extra.items[arg])>>
           ELSE IF in_string(setting.value_type)
             THEN <<Length(arg, setting.extra.items[arg])>>
           ELSE <<>>
      ELSE <<>>

field_validators(setting) ==
    bound_validators(setting, "min") \o bound_validators(setting, "max")

\* setting.extra['choices'](): the list the producer yields when called.
call_choices(producer) ==
    CASE producer = "languages" -> <<"en", "de">>
      [] OTHER -> <<>>

\* coerce_to: extra['coerce'] when present, unicode otherwise.
coerce_to(extra) ==
    IF in_extra("coerce", extra) THEN extra.items["coerce"] ELSE "unicode"

\* A field of wtforms; validators is empty when the constructor gets none.
Field(type, setting, validators) ==
    [field |-> type, label |-> setting.name, validators |-> validators,
     description |-> setting.description]

ChoiceField(type, setting) ==
    [field |-> type, label |-> setting.name, validators |-> <<>>,
     choices |-> call_choices(setting.extra.items["choices"]),
     coerce |-> coerce_to(setting.extra),
     description |-> setting.description]

\* One pass of the loop of get_form: the form with the setting's field set,
\* or the exception the pass raises.
form_entry(form, setting) ==
    IF setting.extra = NullExtra
      THEN Raise("TypeError")
    ELSE IF setting.value_type = "integer"
      THEN Return(DictSet(form, setting.key,
                          Field("IntegerField", setting, field_validators(setting))))
    ELSE IF setting.value_type = "float"
      THEN Return(DictSet(form, setting.key,
                          Field("FloatField", setting, field_validators(setting))))
    ELSE IF setting.value_type = "string"
      THEN Return(DictSet(form, setting.key,
                          Field("TextField", setting, field_validators(setting))))
    ELSE IF setting.value_type = "selectmultiple"
      THEN IF in_extra("choices", setting.extra)
             THEN Return(DictSet(form, setting.key,
                                 ChoiceField("SelectMultipleField", setting)))
             ELSE Raise("KeyError")
    ELSE IF setting.value_type = "select"
      THEN IF in_extra("choices", setting.extra)
             THEN Return(DictSet(form, setting.key, ChoiceField("SelectField", setting)))
             ELSE Raise("KeyError")
    ELSE IF setting.value_type = "boolean"
      THEN Return(DictSet(form, setting.key, Field("BooleanField", setting, <<>>)))
    ELSE Return(form)

\* The loop over group.settings in the order `order`, from position i.
RECURSIVE get_form_loop(_, _, _, _)
get_form_loop(tbl, order, i, form) ==
    IF i > Len(order) THEN Return(form)
    ELSE LET r == form_entry(form, tbl[order[i]])
         IN  IF r.kind = "raise" THEN r
             ELSE get_form_loop(tbl, order, i + 1, r.value)

get_form(tbl, order) == get_form_loop(tbl, order, 1, EmptyDict)

Setting_get_form(group, order) ==
    /\ group \in DOMAIN settingsgroup
    /\ order \in Orders(group_settings(settings, group))
    /\ last' = [op |-> "Setting.get_form", out |-> get_form(settings, order)]
    /\ UNCHANGED <<settingsgroup, settings, config, RequestVars>>

---------------------------------------------------------------------------
(* Setting.update *)

\* The dicts a caller may pass.
Changes == UNION {[S -> Values] : S \in SUBSET Keys}

\* The lookup without lower(): the key as the caller wrote it.
first_by_key_as_given(tbl, key) ==
    IF key \in DOMAIN tbl THEN <<key>> ELSE <<>>

\* query.filter(Setting.key == key.lower()).first(): <<key of the row>>, or
\* <<>> for None.
first_by_key(tbl, key) ==
    IF str_lower(key) \in DOMAIN tbl THEN <<str_lower(key)>> ELSE <<>>

\* The assignment reaching every row instead of the one looked up.
commit_value_every_row(tbl, k, value) ==
    [x \in DOMAIN tbl |-> [tbl[x] EXCEPT !.value = Pickle(value)]]

\* setting.value = value; db.session.add(setting); db.session.commit()
commit_value(tbl, k, value) ==
    [tbl EXCEPT ![k] = [@ EXCEPT !.value = Pickle(value)]]

\* The entry recorded under the key as stored, upper() forgotten.
record_updated_as_stored(updated, k, value) == DictSet(updated, k, value)

\* updated_settings[setting.key.upper()] = setting.value
record_updated(updated, k, value) == DictSet(updated, str_upper(k), value)

\* One pass of the loop body for the entry (key, value).  With setting None
\* the assignment setting.value = value raises AttributeError.
update_entry(tbl, updated, key, value) ==
    LET setting == first_by_key(tbl, key)
    IN  IF setting = <<>>
          THEN [raised |-> TRUE, settings |-> tbl, updated_settings |-> updated]
          ELSE [raised |-> FALSE,
                settings |-> commit_value(tbl, setting[1], value),
                updated_settings |-> record_updated(updated, setting[1], value)]

\* The loop over settings.iteritems() in the order `order`, from position i.
RECURSIVE update_loop(_, _, _, _, _)
update_loop(d, order, i, tbl, updated) ==
    IF i > Len(order)
      THEN [raised |-> FALSE, settings |-> tbl, updated_settings |-> updated]
      ELSE LET r == update_entry(tbl, updated, order[i], d[order[i]])
           IN  IF r.raised THEN r
               ELSE update_loop(d, order, i + 1, r.settings, r.updated_settings)

\* The update with its operands swapped: entries already in the config win.
config_after_keeping(cfg, app, updated) ==
    IF app THEN DictUpdate(updated, cfg) ELSE cfg

\* app.config.update(updated_settings) when an app is passed.
config_after(cfg, app, updated) ==
    IF app THEN DictUpdate(cfg, updated) ELSE cfg

\* The whole call, run without another request in between.
Setting_update(d, order, app) ==
    /\ order \in Orders(DOMAIN d)
    /\ LET r == update_loop(d, order, 1, settings, EmptyDict)
       IN  /\ settings' = r.settings
           /\ config' = IF r.raised THEN config
                        ELSE config_after(config, app, r.updated_settings)
           /\ last' = [op |-> "Setting.update",
                       out |-> IF r.raised THEN Raise("AttributeError")
                               ELSE Return(None)]
    /\ UNCHANGED <<settingsgroup, RequestVars>>

---------------------------------------------------------------------------
(* Setting.update, entry by entry, for requests that run at the same time *)

\* The call is entered: updated_settings = {} and iteritems() starts.
update_enter(r, d) ==
    /\ pc[r] = "idle"
    /\ pc' = [pc EXCEPT ![r] = "loop"]
    /\ call' = [call EXCEPT ![r] = d]
    /\ todo' = [todo EXCEPT ![r] = DOMAIN d]
    /\ updated_settings' = [updated_settings EXCEPT ![r] = EmptyDict]
    /\ overlap' = (overlap \/ \E q \in Requests \ {r} : pc[q] = "loop")
    /\ UNCHANGED <<settingsgroup, settings, config, last, input>>

\* One pass of the loop: iteritems() yields key, any of those left.
update_next(r, key) ==
    /\ pc[r] = "loop"
    /\ key \in todo[r]
    /\ LET res == update_entry(settings, updated_settings[r], key, call[r][key])
       IN  /\ settings' = res.settings
           /\ updated_settings' = [updated_settings EXCEPT ![r] = res.updated_settings]
           /\ pc' = [pc EXCEPT ![r] = IF res.raised THEN "raised" ELSE "loop"]
           /\ todo' = [todo EXCEPT ![r] = IF res.raised THEN @ ELSE @ \ {key}]
    /\ UNCHANGED <<settingsgroup, config, last, input, call, overlap>>

\* The loop is over: the app's config is updated and the call returns.
update_return(r) ==
    /\ pc[r] = "loop"
    /\ todo[r] = {}
    /\ config' = config_after(config, TRUE, updated_settings[r])
    /\ pc' = [pc EXCEPT ![r] = "returned"]
    /\ UNCHANGED <<settingsgroup, settings, last, input, call, todo,
                   updated_settings, overlap>>

---------------------------------------------------------------------------
(* The system from construction: the operations that write, one at a time *)

\* A call of update that changes at most one setting.
SingleChanges == {d \in Changes : Cardinality(DOMAIN d) <= 1}

Next ==
    \/ \E row \in SettingsGroupRows : SettingsGroup_save(row)
    \/ \E g \in GroupKeys : SettingsGroup_delete(g)
    \/ \E row \in SettingRows : Setting_save(row)
    \/ \E k \in Keys : Setting_delete(k)
    \/ \E d \in SingleChanges, app \in BOOLEAN :
         \E order \in Orders(DOMAIN d) : Setting_update(d, order, app)

Spec == Init /\ [][Next]_vars

---------------------------------------------------------------------------
(* One call of update, as_dict or get_all on any tables *)

GroupTables ==
    {[g \in G |-> SettingsGroupRow(g, "Group", "About group")] : G \in SUBSET GroupKeys}

\* The tables of settings that the foreign key admits under the groups.
SettingTables(groups) ==
    UNION {{t \in [S -> SettingRows] :
                \A k \in S : t[k].key = k /\ ForeignKeyHolds(groups, t[k])} :
           S \in SUBSET Keys}

Configs == {EmptyDict, [K \in {str_upper(k) : k \in Keys} |-> 0]}

UpdateInputs ==
    {[op |-> "Setting.update", settings |-> d, order |-> o, app |-> a] :
        d \in Changes, o \in UNION {Orders(DOMAIN c) : c \in Changes}, a \in BOOLEAN}

AsDictInputs ==
    {[op |-> "Setting.as_dict", from_group |-> g, upper |-> u, result |-> o] :
        g \in GroupKeys \cup {None}, u \in BOOLEAN,
        o \in UNION {Orders(S) : S \in SUBSET Keys}}

GetAllInputs ==
    {[op |-> "Setting.get_all", result |-> o] :
        o \in UNION {Orders(S) : S \in SUBSET Keys}}

CallInit ==
    /\ settingsgroup \in GroupTables
    /\ settings \in SettingTables(settingsgroup)
    /\ config \in Configs
    /\ last = Started
    /\ input \in UpdateInputs \cup AsDictInputs \cup GetAllInputs
    /\ input.op = "Setting.update" => input.order \in Orders(DOMAIN input.settings)
    /\ input.op = "Setting.as_dict" =>
          input.result \in Orders(as_dict_result(settings, input.from_group))
    /\ input.op = "Setting.get_all" => input.result \in Orders(DOMAIN settings)
    /\ pc = [r \in Requests |-> "idle"]
    /\ call = [r \in Requests |-> EmptyDict]
    /\ todo = [r \in Requests |-> {}]
    /\ updated_settings = [r \in Requests |-> EmptyDict]
    /\ overlap = FALSE

call_update ==
    /\ last.op = "init"
    /\ input.op = "Setting.update"
    /\ Setting_update(input.settings, input.order, input.app)

call_as_dict ==
    /\ last.op = "init"
    /\ input.op = "Setting.as_dict"
    /\ Setting_as_dict(input.from_group, input.upper, input.result)

call_get_all ==
    /\ last.op = "init"
    /\ input.op = "Setting.get_all"
    /\ Setting_get_all(input.result)

CallNext == call_update \/ call_as_dict \/ call_get_all

CallSpec == CallInit /\ [][CallNext]_vars

---------------------------------------------------------------------------
(* One call of get_form on any group of settings *)

ExtraValue(name) ==
    CASE name = "min" -> 3
      [] name = "max" -> 5
      [] name = "choices" -> "languages"
      [] name = "coerce" -> "int"

Extras ==
    {NullExtra} \cup
    {DictExtra([n \in N |-> ExtraValue(n)]) :
        N \in SUBSET {"min", "max", "choices", "coerce"}}

Labels == {<<"Title", "About title">>, <<"Limit", "About limit">>}

FormKeys == {<<"o", "n">>, <<"u", "p">>}

\* Settings of the group "general", and one of the group "misc".
FormRows ==
    {SettingRow(k, 0, "general", l[1], l[2], t, e) :
        k \in FormKeys, l \in Labels, t \in ValueTypes, e \in Extras}
    \cup {SettingRow(k, 0, "misc", "Other", "About other", "integer",
                     DictExtra(EmptyDict)) : k \in FormKeys}

FormTables ==
    UNION {{t \in [S -> FormRows] : \A k \in S : t[k].key = k} :
           S \in SUBSET FormKeys}

FormInit ==
    /\ settingsgroup = [g \in GroupKeys |-> SettingsGroupRow(g, "Group", "About group")]
    /\ settings \in FormTables
    /\ config = EmptyDict
    /\ last = Started
    /\ input \in {[op |-> "Setting.get_form", group |-> "general", result |-> o] :
                    o \in Orders(group_settings(settings, "general"))}
    /\ pc = [r \in Requests |-> "idle"]
    /\ call = [r \in Requests |-> EmptyDict]
    /\ todo = [r \in Requests |-> {}]
    /\ updated_settings = [r \in Requests |-> EmptyDict]
    /\ overlap = FALSE

call_get_form ==
    /\ last.op = "init"
    /\ input.op = "Setting.get_form"
    /\ Setting_get_form(input.group, input.result)

FormNext == call_get_form

FormSpec == FormInit /\ [][FormNext]_vars

---------------------------------------------------------------------------
(* Two requests that call update with the same app *)

ConcTables ==
    {t \in SettingTables([g \in GroupKeys |-> SettingsGroupRow(g, "Group", "About group")]) :
        /\ <<"o", "n">> \in DOMAIN t
        /\ <<"O", "n">> \notin DOMAIN t
        /\ \A k \in DOMAIN t : t[k].settingsgroup = "general" /\ Unpickle(t[k].value) = 0}

ConcInit ==
    /\ settingsgroup = [g \in GroupKeys |-> SettingsGroupRow(g, "Group", "About group")]
    /\ settings \in ConcTables
    /\ config = EmptyDict
    /\ last = Started
    /\ input = NoInput
    /\ pc = [r \in Requests |-> "idle"]
    /\ call = [r \in Requests |-> EmptyDict]
    /\ todo = [r \in Requests |-> {}]
    /\ updated_settings = [r \in Requests |-> EmptyDict]
    /\ overlap = FALSE

ConcNext ==
    \/ \E r \in Requests, d \in Changes : update_enter(r, d)
    \/ \E r \in Requests, key \in Keys : update_next(r, key)
    \/ \E r \in Requests : update_return(r)

ConcSpec == ConcInit /\ [][ConcNext]_vars

---------------------------------------------------------------------------
(* Vocabulary of the properties *)

ValueOf(tbl, k) == Unpickle(tbl[k].value)

KeyCase(k, upper) == IF upper THEN str_upper(k) ELSE k

Position(order, k) == CHOOSE i \in DOMAIN order : order[i] = k

\* The member of S that the order yields last.
YieldedLast(order, S) ==
    CHOOSE k \in S : \A j \in S : Position(order, j) <= Position(order, k)

\* The keys of the dict d that lower-case to the same key as k.
Sharing(d, k) == {j \in DOMAIN d : str_lower(j) = str_lower(k)}

\* get_all and as_dict with the keys as stored both yield v for the setting k,
\* in whatever order the query yields the rows.
ReadBack(k, v) ==
    \A o \in Orders(DOMAIN settings) :
        /\ \E i \in DOMAIN o :
              /\ query_all(settings, o)[i].key = k
              /\ Unpickle(query_all(settings, o)[i].value) = v
        /\ as_dict(settingsgroup, settings, None, FALSE, o).value[k] = v

\* as_dict(upper=True) yields v under the upper-cased key of the setting k.
ReadBackUpper(k, v) ==
    \A o \in Orders(DOMAIN settings) :
        as_dict(settingsgroup, settings, None, TRUE, o).value[str_upper(k)] = v

UpdateReturned == last.op = "Setting.update" /\ last.out.kind = "return"

UpdateRaised == last.op = "Setting.update" /\ last.out.kind = "raise"

\* The position in the order of the first entry whose key matches no setting.
FailsAt(tbl, order) ==
    CHOOSE n \in DOMAIN order :
        /\ str_lower(order[n]) \notin DOMAIN tbl
        /\ \A i \in 1..(n - 1) : str_lower(order[i]) \in DOMAIN tbl

Processed(tbl, order) == {order[i] : i \in 1..(FailsAt(tbl, order) - 1)}

Pending(tbl, order) == {order[i] : i \in (FailsAt(tbl, order) + 1)..Len(order)}

---------------------------------------------------------------------------
(* C1 *)

\* C1 as stated: after update(changes) returns without error, for every
\* entry (k, v) of changes the setting whose key is k lower-cased holds
\* exactly v, and get_all and as_dict read that v back.
C1_EveryEntryStored ==
    UpdateReturned =>
        \A k \in DOMAIN input.settings :
            /\ str_lower(k) \in DOMAIN settings
            /\ ValueOf(settings, str_lower(k)) = input.settings[k]
            /\ ReadBack(str_lower(k), input.settings[k])

\* C1 as amended: after update(changes) returns without error, for every
\* entry (k, v) of changes the setting whose key is k lower-cased holds the
\* value of the entry that changes yields last among the entries whose keys
\* lower-case to that key, hence exactly v when no other key of changes
\* differs from k only in letter case; get_all and as_dict with the keys as
\* stored read that value back, and so does as_dict(upper=True) when no other
\* stored key upper-cases to the same key.
C1_LastSharingEntryStored ==
    UpdateReturned =>
        \A k \in DOMAIN input.settings :
            LET kl == str_lower(k)
                w == input.settings[YieldedLast(input.order, Sharing(input.settings, k))]
            IN  /\ kl \in DOMAIN settings
                /\ ValueOf(settings, kl) = w
                /\ ReadBack(kl, w)
                /\ Sharing(input.settings, k) = {k} => w = input.settings[k]
                /\ (\A j \in DOMAIN settings : str_upper(j) = str_upper(kl) => j = kl)
                      => ReadBackUpper(kl, w)

\* update has returned for a dict in which two keys differ only in letter
\* case and carry different values.
C1_Witness ==
    /\ UpdateReturned
    /\ \E k, j \in DOMAIN input.settings :
          /\ k # j
          /\ str_lower(k) = str_lower(j)
          /\ input.settings[k] # input.settings[j]

---------------------------------------------------------------------------
(* C2 *)

\* The keys update records for the entries it has processed.
RecordedKeys(r) == {str_upper(str_lower(k)) : k \in DOMAIN call[r] \ todo[r]}

\* C2: update with an app writes the config only once the loop has passed
\* every entry, in one step, exactly the upper-cased keys of the settings it
\* updated with the values it gave them; a call in which an entry fails
\* never writes the config.
C2_ConfigWrittenAfterAllEntries ==
    [][ /\ config' # config =>
              \E r \in Requests : pc[r] = "loop" /\ pc'[r] = "returned"
        /\ \A r \in Requests :
              /\ (pc[r] = "loop" /\ pc'[r] = "returned") =>
                    /\ todo[r] = {}
                    /\ DOMAIN updated_settings[r] = RecordedKeys(r)
                    /\ DOMAIN config' = (DOMAIN config) \cup RecordedKeys(r)
                    /\ \A K \in RecordedKeys(r) :
                          /\ config'[K] = updated_settings[r][K]
                          /\ \E k \in DOMAIN call[r] :
                                /\ str_upper(str_lower(k)) = K
                                /\ call[r][k] = config'[K]
                    /\ \A K \in (DOMAIN config) \ RecordedKeys(r) : config'[K] = config[K]
              /\ (pc[r] = "loop" /\ pc'[r] = "raised") => config' = config
              /\ pc[r] = "raised" => pc'[r] = "raised"
      ]_vars

\* One call of two entries has returned and written the key it recorded into
\* the config, and the other call has failed after a commit.
C2_Witness ==
    \E r, q \in Requests :
        /\ pc[r] = "returned"
        /\ Cardinality(DOMAIN call[r]) = 2
        /\ updated_settings[r] # EmptyDict
        /\ DOMAIN updated_settings[r] \subseteq DOMAIN config
        /\ pc[q] = "raised"
        /\ updated_settings[q] # EmptyDict

---------------------------------------------------------------------------
(* C3 *)

\* C3: update fails with NotFound whenever a key of changes lower-cases to
\* the key of no setting, and creates no setting.
C3_MissingKeyRaisesNotFound ==
    [][ (/\ last'.op = "Setting.update"
         /\ \E k \in DOMAIN input.settings : str_lower(k) \notin DOMAIN settings)
        => /\ last'.out.kind = "raise"
           /\ last'.out.error = "NotFound"
           /\ DOMAIN settings' = DOMAIN settings
      ]_vars

---------------------------------------------------------------------------
(* C4 *)

\* C4 as stated: when an entry fails, every entry processed before it has
\* its new value stored, and the setting of every entry not yet processed
\* keeps its old value.
C4_ProcessedKeptPendingOld ==
    [][ (last'.op = "Setting.update" /\ last'.out.kind = "raise") =>
            /\ \A k \in Processed(settings, input.order) :
                  ValueOf(settings', str_lower(k)) = input.settings[k]
            /\ \A k \in Pending(settings, input.order) :
                  str_lower(k) \in DOMAIN settings =>
                      settings'[str_lower(k)] = settings[str_lower(k)]
      ]_vars

\* C4 as amended: when an entry fails, nothing is rolled back: every setting
\* that an entry processed before it targets holds the value of the last such
\* entry processed and is otherwise as it was, and every other setting, those
\* targeted only by entries not yet processed included, is exactly as it was.
C4_CommittedEntriesStay ==
    [][ (last'.op = "Setting.update" /\ last'.out.kind = "raise") =>
            /\ DOMAIN settings' = DOMAIN settings
            /\ \A kl \in DOMAIN settings :
                  LET P == {k \in Processed(settings, input.order) : str_lower(k) = kl}
                  IN  IF P = {}
                        THEN settings'[kl] = settings[kl]
                        ELSE settings'[kl] =
                               [settings[kl] EXCEPT !.value =
                                   Pickle(input.settings[YieldedLast(input.order, P)])]
      ]_vars

\* update has failed at an entry that is neither the first nor the last the
\* dict yields.
C4_Witness ==
    /\ UpdateRaised
    /\ FailsAt(settings, input.order) > 1
    /\ FailsAt(settings, input.order) < Len(input.order)

---------------------------------------------------------------------------
(* C5 *)

AsDictOfGroup == last.op = "Setting.as_dict" /\ input.from_group # None

\* C5 as stated: as_dict(from_group=g, upper=u) maps exactly the keys of the
\* settings of g, upper-cased when u, each to that setting's stored value,
\* and fails with NotFound when no group has key g.
C5_EverySettingOfGroupMapped ==
    AsDictOfGroup =>
        LET G == group_settings(settings, input.from_group)
        IN  IF input.from_group \notin DOMAIN settingsgroup
              THEN last.out.kind = "raise" /\ last.out.error = "NotFound"
              ELSE /\ last.out.kind = "return"
                   /\ DOMAIN last.out.value = {KeyCase(k, input.upper) : k \in G}
                   /\ \A k \in G :
                         last.out.value[KeyCase(k, input.upper)] = ValueOf(settings, k)

\* C5 as amended: as_dict(from_group=g, upper=u) maps exactly the keys of the
\* settings of g, upper-cased when u; with u false each key maps to its
\* setting's stored value; with u true each key maps to the stored value of
\* the setting the query yields last among the settings of g that upper-case
\* to it, hence to its own setting's value when no two keys of g differ only
\* in letter case; it fails with NotFound when no group has key g.
C5_KeysOfGroupMapped ==
    AsDictOfGroup =>
        LET G == group_settings(settings, input.from_group)
        IN  IF input.from_group \notin DOMAIN settingsgroup
              THEN last.out.kind = "raise" /\ last.out.error = "NotFound"
              ELSE /\ last.out.kind = "return"
                   /\ DOMAIN last.out.value = {KeyCase(k, input.upper) : k \in G}
                   /\ \A k \in G :
                         LET same == {j \in G : KeyCase(j, input.upper)
                                                  = KeyCase(k, input.upper)}
                         IN  /\ last.out.value[KeyCase(k, input.upper)] =
                                  ValueOf(settings, YieldedLast(input.result, same))
                             /\ same = {k} =>
                                  last.out.value[KeyCase(k, input.upper)]
                                      = ValueOf(settings, k)
                   /\ ~input.upper =>
                         \A k \in G : last.out.value[k] = ValueOf(settings, k)

\* as_dict(upper=True) has returned for a group two of whose settings differ
\* only in letter case and in value, while another group has a setting too.
C5_Witness ==
    /\ AsDictOfGroup
    /\ last.out.kind = "return"
    /\ input.upper
    /\ \E k, j \in group_settings(settings, input.from_group) :
          /\ k # j
          /\ str_upper(k) = str_upper(j)
          /\ ValueOf(settings, k) # ValueOf(settings, j)
    /\ \E k \in DOMAIN settings : settings[k].settingsgroup # input.from_group

---------------------------------------------------------------------------
(* C6 *)

ForeignKeysHold ==
    \A k \in DOMAIN settings : settings[k].settingsgroup \in DOMAIN settingsgroup

\* C6: after any sequence of SettingsGroup.save/delete and
\* Setting.save/delete/update every setting's settingsgroup is the key of a
\* stored group; the delete of a group removes exactly the settings that
\* referenced it and leaves the settings of the other groups as they were.
C6_SettingsReferToGroups ==
    /\ []ForeignKeysHold
    /\ [][ \A g \in (DOMAIN settingsgroup) \ (DOMAIN settingsgroup') :
              /\ DOMAIN settings' = (DOMAIN settings) \ group_settings(settings, g)
              /\ \A k \in DOMAIN settings' : settings'[k] = settings[k]
         ]_vars

\* A group has been deleted and settings of the other group remain.
C6_Witness ==
    /\ last.op = "SettingsGroup.delete"
    /\ DOMAIN settings # {}
    /\ Cardinality(DOMAIN settingsgroup) = 1

---------------------------------------------------------------------------
(* C7, C8, C9 *)

Recognised ==
    {"integer", "float", "string", "boolean", "select", "selectmultiple"}

FieldOf(value_type) ==
    CASE value_type = "integer" -> "IntegerField"
      [] value_type = "float" -> "FloatField"
      [] value_type = "string" -> "TextField"
      [] value_type = "boolean" -> "BooleanField"
      [] value_type = "select" -> "SelectField"
      [] value_type = "selectmultiple" -> "SelectMultipleField"

GetFormCalled == last.op = "Setting.get_form"

GetFormReturned == GetFormCalled /\ last.out.kind = "return"

IsChoice(setting) == setting.value_type \in {"select", "selectmultiple"}

\* A select or selectmultiple setting whose extra has no entry "choices".
LacksChoices(setting) ==
    /\ IsChoice(setting)
    /\ setting.extra = NullExtra \/ "choices" \notin DOMAIN setting.extra.items

\* The fields of a returned form are those of the settings of the group
\* with a recognised value_type, each of the matching type and with the
\* setting's name and description.
FieldsOfRecognised ==
    LET G == group_settings(settings, input.group)
        form == last.out.value
    IN  /\ DOMAIN form = {k \in G : settings[k].value_type \in Recognised}
        /\ \A k \in DOMAIN form :
              /\ form[k].field = FieldOf(settings[k].value_type)
              /\ form[k].label = settings[k].name
              /\ form[k].description = settings[k].description

\* C7: get_form returns a form with exactly one field per setting of a
\* recognised value_type, of the matching type, name and description
\* copied; a setting of any other value_type gets no field, raises no error
\* and does not keep the other fields from being produced.
C7_OtherTypesRaiseNothing ==
    GetFormCalled =>
        /\ last.out.kind = "return" => FieldsOfRecognised
        /\ (\A k \in group_settings(settings, input.group) :
               settings[k].value_type \in Recognised =>
                   settings[k].extra # NullExtra /\ ~LacksChoices(settings[k]))
              => last.out.kind = "return"

\* The validators C8 describes for class cls and the dict x of extra.
BoundsOf(cls, x) ==
    (IF "min" \in DOMAIN x
       THEN <<[validator |-> cls, arg |-> "min", bound |-> x["min"]]>> ELSE <<>>)
    \o (IF "max" \in DOMAIN x
          THEN <<[validator |-> cls, arg |-> "max", bound |-> x["max"]]>> ELSE <<>>)

\* C8: the validators of a field are, for integer and float, NumberRange
\* with min when extra has min and NumberRange with max when extra has max;
\* for string, Length under the same conditions and never NumberRange; for
\* boolean, select and selectmultiple none, min and max raising no error.
C8_ValidatorsByTypeAndExtra ==
    GetFormCalled =>
        /\ last.out.kind = "return" =>
              \A k \in DOMAIN last.out.value :
                  LET t == settings[k].value_type
                      x == settings[k].extra.items
                      v == last.out.value[k].validators
                  IN  /\ t \in {"integer", "float"} => v = BoundsOf("NumberRange", x)
                      /\ t = "string" => v = BoundsOf("Length", x)
                      /\ t \in {"boolean", "select", "selectmultiple"} => v = <<>>
        /\ (\A k \in group_settings(settings, input.group) :
               settings[k].extra # NullExtra /\ ~LacksChoices(settings[k]))
              => last.out.kind = "return"

\* A form has been returned with a text field bounded on both sides and a
\* boolean or choice field whose setting has a min.
C8_Witness ==
    /\ GetFormReturned
    /\ \E k, j \in DOMAIN last.out.value :
          /\ last.out.value[k].field = "TextField"
          /\ Len(last.out.value[k].validators) = 2
          /\ last.out.value[j].field \in {"BooleanField", "SelectField",
                                          "SelectMultipleField"}
          /\ "min" \in DOMAIN settings[j].extra.items

\* C9: get_form fails with KeyError whenever the group holds a select or
\* selectmultiple setting whose extra has no choices; when it returns, the
\* choices of a choice field are the result of calling extra.choices and
\* its coerce is extra.coerce when present, unicode otherwise.
C9_MissingChoicesRaisesKeyError ==
    GetFormCalled =>
        /\ (\E k \in group_settings(settings, input.group) : LacksChoices(settings[k]))
              => last.out.kind = "raise" /\ last.out.error = "KeyError"
        /\ last.out.kind = "return" =>
              \A k \in DOMAIN last.out.value :
                  IsChoice(settings[k]) =>
                      LET x == settings[k].extra.items
                      IN  /\ last.out.value[k].choices = call_choices(x["choices"])
                          /\ last.out.value[k].coerce =
                                IF "coerce" \in DOMAIN x THEN x["coerce"] ELSE "unicode"

---------------------------------------------------------------------------
(* C10 *)

\* Every key of the config holds the stored value of the setting whose key
\* is that key lower-cased.
ConfigAgreesWithSettings ==
    \A K \in DOMAIN config :
        /\ str_lower(K) \in DOMAIN settings
        /\ config[K] = ValueOf(settings, str_lower(K))

====
